---------------------------- MODULE Spec2Model ----------------------------
(***************************************************************************)
(* permessage-deflate (package wsflate): parameter parsing and encoding,   *)
(* the server-side negotiation object and the RSV bit extenders.           *)
(*                                                                         *)
(* A tokenized header option is [name, params] with params an ordered      *)
(* sequence of [key, val] pairs; val is a sequence of byte codes and <<>>  *)
(* stands for an absent value (len(val) == 0).                             *)
(***************************************************************************)
EXTENDS Integers, Sequences, FiniteSets, TLC

VARIABLES
    \* Extension (negotiation object)
    desired,    \* Extension.Parameters
    accepted,   \* Extension.accepted
    params,     \* Extension.params (what Accepted() returns)
    op,         \* last method called on the Extension
    arg,        \* the option passed to the last Negotiate
    ret,        \* the option returned by the last Negotiate
    err,        \* the error returned by the last Negotiate
    got,        \* the pair returned by the last Accepted()
    preAccepted, \* accepted as it was when the last call began
    \* Parameters.Parse on an arbitrary option
    pOpt,       \* the option given to Parse
    pRecv,      \* the receiver before the call
    pRes,       \* [p, err] after the call
    pPc,        \* "input" | "done"
    \* Parameters.Option followed by Parameters.Parse
    rP,         \* the Parameters value encoded
    rOpt,       \* result of rP.Option(): [panic, opt]
    rRes,       \* result of Parse(rOpt.opt)
    rPc,        \* "input" | "encoded" | "parsed" | "panicked"
    \* ExtendRead / ExtendWrite
    xFseq,      \* fragment index argument
    xRsv,       \* rsv argument
    xOp,        \* "none" | "ExtendRead" | "ExtendWrite"
    xOut,       \* returned rsv byte
    xErr,       \* returned error
    \* one message sent fragment by fragment through ExtendWrite and ExtendRead
    mPc,        \* "start" | "written" | "read" | "refused"
    mIdx,       \* index of the fragment in hand
    mHdr,       \* rsv of its header as the sender built it
    mWire,      \* rsv after ExtendWrite
    mRecv,      \* rsv after ExtendRead of mWire
    mErr,       \* error of the last of the two calls
    \* the Writer, its compressor and the destinations
    wDest,      \* Writer.Dest
    wC,         \* Writer.c: "nil" before init, "set" afterwards
    wErr,       \* Writer.err
    wCbuf,      \* Writer.cbuf: [held, dst]
    wOut,       \* what each destination has received
    cCloser,    \* the compressors of the factory implement io.Closer
    cResetter,  \* the compressors of the factory implement WriteResetter
    wEmitted,   \* what the compressor wrote since construction or the last Reset
    wBase,      \* how much the bound destination held when it was bound
    wOp,        \* last operation
    wArg,       \* the destination given to it, if it was Reset
    wRet,       \* error it returned
    wCalls,     \* calls of Write, Flush or Close it made on the compressor
    wCErr,      \* what the compressor returned to it
    wFactory,   \* calls of Writer.Compressor it made
    wCReset,    \* it called Reset on the compressor
    wResets,    \* calls of Reset so far
    \* the Reader, its decompressor and the sources
    rdSource,   \* Reader.Source
    rdD,        \* Reader.d: "nil" before init, "set" afterwards
    rdErr,      \* Reader.err
    rdSr,       \* Reader.sr: [r, suffix, pos]
    srcData,    \* the bytes of each source
    srcPos,     \* how many of them have been read
    dResetter,  \* the decompressors of the factory implement ReadResetter
    rdBound,    \* the source the decompressor was last bound to
    rdFrom,     \* how much of it had been read when it was bound
    rdGiven,    \* what the decompressor has read since it was bound
    rdEOF,      \* it has been told io.EOF since it was bound
    rdOp,       \* last operation
    rdFactory   \* calls of Reader.Decompressor it made

extVars == <<desired, accepted, params, op, arg, ret, err, got, preAccepted>>
parseVars == <<pOpt, pRecv, pRes, pPc>>
tripVars == <<rP, rOpt, rRes, rPc>>
rsvVars == <<xFseq, xRsv, xOp, xOut, xErr>>
msgVars == <<mPc, mIdx, mHdr, mWire, mRecv, mErr>>
writerVars == <<wDest, wC, wErr, wCbuf, wOut, cCloser, cResetter, wEmitted,
                wBase, wOp, wArg, wRet, wCalls, wCErr, wFactory, wCReset, wResets>>
readerVars == <<rdSource, rdD, rdErr, rdSr, srcData, srcPos, dResetter, rdBound,
                rdFrom, rdGiven, rdEOF, rdOp, rdFactory>>
vars == <<extVars, parseVars, tripVars, rsvVars, msgVars, writerVars, readerVars>>

-----------------------------------------------------------------------------
(* Bounds of the model. *)

\* longest parameter list of an option given to Parse
MaxParams == 3
\* longest parameter list of an offer given to Negotiate
MaxOfferLen == 2
\* largest fragment index given to ExtendRead / ExtendWrite
MaxFseq == 6
\* largest WindowBits value given to Option (WindowBits is a byte)
MaxBitsValue == 16
\* most bytes the destinations and the delay buffer of a Writer hold together
MaxStream == 8
\* most Reset calls on one Writer
MaxResets == 1
\* most bytes in one source of a Reader
MaxSource == 2
\* largest buffer the decompressor reads into
MaxRead == 3

-----------------------------------------------------------------------------
(* Names and byte strings. *)

ExtensionName == "permessage-deflate"
serverNoContextTakeover == "server_no_context_takeover"
clientNoContextTakeover == "client_no_context_takeover"
serverMaxWindowBits == "server_max_window_bits"
clientMaxWindowBits == "client_max_window_bits"
\* a parameter name the extension does not define
unknownKey == "x_unknown"
\* an extension name other than permessage-deflate
OtherName == "x-webkit-deflate-frame"

\* strconv.Itoa for 0..99 as ASCII byte codes
Itoa(n) == IF n < 10 THEN <<48 + n>> ELSE <<48 + (n \div 10), 48 + (n % 10)>>

\* Mutant of windowBits: the table filled with Itoa(i), the + 8 forgotten.
windowBitsUnshifted(i) == Itoa(i)

\* windowBits[i] = []byte(strconv.Itoa(i + 8)), i in 0..7
windowBits(i) == Itoa(i + 8)

isValidBits(x) == 8 <= x /\ x <= 15

RECURSIVE pow10(_)
pow10(n) == IF n = 0 THEN 1 ELSE 10 * pow10(n - 1)

RECURSIVE digitsValue(_)
digitsValue(bts) ==
    IF bts = <<>> THEN 0
    ELSE (Head(bts) - 48) * pow10(Len(bts) - 1) + digitsValue(Tail(bts))

\* httphead.IntFromASCII: decimal ASCII to int, ok = FALSE on a non-digit
IntFromASCII(bts) ==
    IF Len(bts) >= 1 /\ \A i \in 1..Len(bts) : bts[i] \in 48..57
    THEN [n |-> digitsValue(bts), ok |-> TRUE]
    ELSE [n |-> 0, ok |-> FALSE]

bitsFromASCII(p) ==
    LET r == IntFromASCII(p) IN
    IF ~r.ok \/ ~isValidBits(r.n)
    THEN [bits |-> 0, ok |-> FALSE]
    ELSE [bits |-> r.n, ok |-> TRUE]

-----------------------------------------------------------------------------
(* Parameters *)

ZeroParameters ==
    [ServerNoContextTakeover |-> FALSE, ClientNoContextTakeover |-> FALSE,
     ServerMaxWindowBits |-> 0, ClientMaxWindowBits |-> 0]

NilError == [reason |-> "nil", key |-> "", val |-> <<>>]

paramError(reason, key, val) == [reason |-> reason, key |-> key, val |-> val]

clientMaxWindowBitsSeen == 1
serverMaxWindowBitsSeen == 2
clientNoContextTakeoverSeen == 4
serverNoContextTakeoverSeen == 8

\* seen & flag != 0, for a one-bit flag
HasBit(seen, flag) == (seen \div flag) % 2 = 1
\* seen | flag, for a one-bit flag
OrBit(seen, flag) == IF HasBit(seen, flag) THEN seen ELSE seen + flag

\* One call of the ForEach callback of Parse, on the parse state
\* st = [p, seen, err, ok]; ok is the callback's result (FALSE stops ForEach).
ParseClientMaxWindowBits(st, key, val) ==
    IF Len(val) = 0
    THEN [st EXCEPT !.p.ClientMaxWindowBits = 1]
    ELSE IF HasBit(st.seen, clientMaxWindowBitsSeen)
    THEN [st EXCEPT !.err = paramError("duplicate", key, val), !.ok = FALSE]
    ELSE LET b == bitsFromASCII(val)
             s == [st EXCEPT !.seen = OrBit(st.seen, clientMaxWindowBitsSeen),
                             !.p.ClientMaxWindowBits = b.bits]
         IN IF ~b.ok
            THEN [s EXCEPT !.err = paramError("invalid", key, val), !.ok = FALSE]
            ELSE s

ParseServerMaxWindowBits(st, key, val) ==
    IF Len(val) = 0
    THEN [st EXCEPT !.err = paramError("invalid", key, val), !.ok = FALSE]
    ELSE IF HasBit(st.seen, serverMaxWindowBitsSeen)
    THEN [st EXCEPT !.err = paramError("duplicate", key, val), !.ok = FALSE]
    ELSE LET b == bitsFromASCII(val)
             s == [st EXCEPT !.seen = OrBit(st.seen, serverMaxWindowBitsSeen),
                             !.p.ServerMaxWindowBits = b.bits]
         IN IF ~b.ok
            THEN [s EXCEPT !.err = paramError("invalid", key, val), !.ok = FALSE]
            ELSE s

ParseClientNoContextTakeover(st, key, val) ==
    IF Len(val) > 0
    THEN [st EXCEPT !.err = paramError("invalid", key, val), !.ok = FALSE]
    ELSE IF HasBit(st.seen, clientNoContextTakeoverSeen)
    THEN [st EXCEPT !.err = paramError("duplicate", key, val), !.ok = FALSE]
    ELSE [st EXCEPT !.seen = OrBit(st.seen, clientNoContextTakeoverSeen),
                    !.p.ClientNoContextTakeover = TRUE]

ParseServerNoContextTakeover(st, key, val) ==
    IF Len(val) > 0
    THEN [st EXCEPT !.err = paramError("invalid", key, val), !.ok = FALSE]
    ELSE IF HasBit(st.seen, serverNoContextTakeoverSeen)
    THEN [st EXCEPT !.err = paramError("duplicate", key, val), !.ok = FALSE]
    ELSE [st EXCEPT !.seen = OrBit(st.seen, serverNoContextTakeoverSeen),
                    !.p.ServerNoContextTakeover = TRUE]

\* Mutant of ParseEach: a lenient parser that skips parameters it does not know.
ParseEachLenient(st, key, val) ==
    CASE key = clientMaxWindowBits -> ParseClientMaxWindowBits(st, key, val)
      [] key = serverMaxWindowBits -> ParseServerMaxWindowBits(st, key, val)
      [] key = clientNoContextTakeover -> ParseClientNoContextTakeover(st, key, val)
      [] key = serverNoContextTakeover -> ParseServerNoContextTakeover(st, key, val)
      [] OTHER -> st

ParseEach(st, key, val) ==
    CASE key = clientMaxWindowBits -> ParseClientMaxWindowBits(st, key, val)
      [] key = serverMaxWindowBits -> ParseServerMaxWindowBits(st, key, val)
      [] key = clientNoContextTakeover -> ParseClientNoContextTakeover(st, key, val)
      [] key = serverNoContextTakeover -> ParseServerNoContextTakeover(st, key, val)
      [] OTHER -> [st EXCEPT !.err = paramError("unexpected", key, val), !.ok = FALSE]

\* opt.Parameters.ForEach(cb): calls cb on each pair in order until it returns false
RECURSIVE ForEach(_, _)
ForEach(st, ps) ==
    IF ps = <<>> \/ ~st.ok THEN st
    ELSE ForEach(ParseEach(st, Head(ps).key, Head(ps).val), Tail(ps))

\* *p = Parameters{}; var seen byte
ParseStart(recv) == [p |-> ZeroParameters, seen |-> 0, err |-> NilError, ok |-> TRUE]

\* what Parse leaves behind: the receiver and the named result err
ParseReturn(st) == [p |-> st.p, err |-> st.err]

\* (p *Parameters).Parse(opt): the receiver afterwards and the error returned
Parse(recv, opt) == ParseReturn(ForEach(ParseStart(recv), opt.params))

\* httphead.Parameters.Set: replaces the value of an existing key, appends otherwise
RECURSIVE Set(_, _, _)
Set(ps, key, value) ==
    IF ps = <<>> THEN <<[key |-> key, val |-> value]>>
    ELSE IF Head(ps).key = key THEN <<[key |-> key, val |-> value]>> \o Tail(ps)
    ELSE <<Head(ps)>> \o Set(Tail(ps), key, value)

\* The option under construction is b = [opt, panic]; once panic is TRUE the
\* rest of Option() does not run.
\* Mutant of setBits: the check of the value is missing, any value from 2 on is
\* written out in digits.
setBitsUnchecked(b, name, bits) ==
    IF b.panic \/ bits = 0 THEN b
    ELSE IF bits = 1 THEN [b EXCEPT !.opt.params = Set(b.opt.params, name, <<>>)]
    ELSE [b EXCEPT !.opt.params = Set(b.opt.params, name, Itoa(bits))]

setBits(b, name, bits) ==
    IF b.panic \/ bits = 0 THEN b
    ELSE IF bits = 1 THEN [b EXCEPT !.opt.params = Set(b.opt.params, name, <<>>)]
    ELSE IF ~isValidBits(bits) THEN [b EXCEPT !.panic = TRUE]
    ELSE [b EXCEPT !.opt.params = Set(b.opt.params, name, windowBits(bits - 8))]

setBool(b, name, flag) ==
    IF ~b.panic /\ flag
    THEN [b EXCEPT !.opt.params = Set(b.opt.params, name, <<>>)]
    ELSE b

\* (p Parameters).Option(): [opt, panic]; opt is meaningless when panic is TRUE
Option(p) ==
    LET b0 == [opt |-> [name |-> ExtensionName, params |-> <<>>], panic |-> FALSE]
        b1 == setBool(b0, serverNoContextTakeover, p.ServerNoContextTakeover)
        b2 == setBool(b1, clientNoContextTakeover, p.ClientNoContextTakeover)
        b3 == setBits(b2, serverMaxWindowBits, p.ServerMaxWindowBits)
        b4 == setBits(b3, clientMaxWindowBits, p.ClientMaxWindowBits)
    IN b4

-----------------------------------------------------------------------------
(* Inputs. *)

SeqsUpTo(S, n) == UNION {[1..k -> S] : k \in 0..n}

\* "x"
NonDigit == <<120>>

\* values tried for the *_max_window_bits keys: absent, "7", "8", "10", "15", "16", "x"
BitsValues == {<<>>, Itoa(7), Itoa(8), Itoa(10), Itoa(15), Itoa(16), NonDigit}
\* values tried for the other keys: absent, "8"
FlagValues == {<<>>, Itoa(8)}

ParsePairs ==
    {[key |-> k, val |-> v] : k \in {clientMaxWindowBits, serverMaxWindowBits}, v \in BitsValues}
    \cup {[key |-> k, val |-> v] :
            k \in {clientNoContextTakeover, serverNoContextTakeover, unknownKey},
            v \in FlagValues}

ParseOptions == {[name |-> ExtensionName, params |-> ps] : ps \in SeqsUpTo(ParsePairs, MaxParams)}

\* receivers Parse is called on: a fresh one and one holding earlier values
Receivers ==
    {ZeroParameters,
     [ServerNoContextTakeover |-> TRUE, ClientNoContextTakeover |-> TRUE,
      ServerMaxWindowBits |-> 9, ClientMaxWindowBits |-> 12]}

AllParameters ==
    [ServerNoContextTakeover : BOOLEAN, ClientNoContextTakeover : BOOLEAN,
     ServerMaxWindowBits : 0..MaxBitsValue, ClientMaxWindowBits : 0..MaxBitsValue]

ZeroOption == [name |-> "", params |-> <<>>]
NoResult == [p |-> ZeroParameters, err |-> NilError]
NoEncoding == [opt |-> ZeroOption, panic |-> FALSE]

-----------------------------------------------------------------------------
(* Parameters.Parse applied to an arbitrary option. *)

ParseInit ==
    /\ pOpt \in ParseOptions
    /\ pRecv \in Receivers
    /\ pRes = NoResult
    /\ pPc = "input"

DoParse ==
    /\ pPc = "input"
    /\ pRes' = Parse(pRecv, pOpt)
    /\ pPc' = "done"
    /\ UNCHANGED <<pOpt, pRecv>>

(* Parameters.Option followed by Parameters.Parse of its result. *)

TripInit ==
    /\ rP \in AllParameters
    /\ rOpt = NoEncoding
    /\ rRes = NoResult
    /\ rPc = "input"

TripOption ==
    /\ rPc = "input"
    /\ rOpt' = Option(rP)
    /\ rPc' = IF rOpt'.panic THEN "panicked" ELSE "encoded"
    /\ UNCHANGED <<rP, rRes>>

TripParse ==
    /\ rPc = "encoded"
    /\ rRes' = Parse(ZeroParameters, rOpt.opt)
    /\ rPc' = "parsed"
    /\ UNCHANGED <<rP, rOpt>>


-----------------------------------------------------------------------------
(* Extension: negotiation *)

\* A panic of Option() inside Negotiate: no values are returned.
PanicFault == [reason |-> "panic", key |-> "", val |-> <<>>]

\* n.accepted = true; return want.Option(), nil
NegotiateAccept(n2, o) ==
    IF o.panic
    THEN [n |-> n2, accept |-> ZeroOption, err |-> PanicFault]
    ELSE [n |-> n2, accept |-> o.opt, err |-> NilError]

\* Mutant of NegotiateParsed: the offer is parsed into a scratch Parameters
\* that is stored in n.params only once the parse has succeeded.
NegotiateParsedScratch(n, r) ==
    LET want == n.Parameters
        offer == r.p
        n1 == [n EXCEPT !.params = offer]
    IN IF r.err # NilError
       THEN [n |-> n, accept |-> ZeroOption, err |-> r.err]
       ELSE IF offer.ServerMaxWindowBits > want.ServerMaxWindowBits
       THEN [n |-> n1, accept |-> ZeroOption, err |-> NilError]
       ELSE IF want.ClientMaxWindowBits > offer.ClientMaxWindowBits
       THEN [n |-> n1, accept |-> ZeroOption, err |-> NilError]
       ELSE IF offer.ServerNoContextTakeover /\ ~want.ServerNoContextTakeover
       THEN [n |-> n1, accept |-> ZeroOption, err |-> NilError]
       ELSE NegotiateAccept([n1 EXCEPT !.accepted = TRUE], Option(want))

\* Mutant of NegotiateParsed: a declined offer is not kept in n.params.
NegotiateParsedKeepOnDecline(n, r) ==
    LET want == n.Parameters
        offer == r.p
        n1 == [n EXCEPT !.params = offer]
    IN IF r.err # NilError
       THEN [n |-> n1, accept |-> ZeroOption, err |-> r.err]
       ELSE IF offer.ServerMaxWindowBits > want.ServerMaxWindowBits
       THEN [n |-> n, accept |-> ZeroOption, err |-> NilError]
       ELSE IF want.ClientMaxWindowBits > offer.ClientMaxWindowBits
       THEN [n |-> n, accept |-> ZeroOption, err |-> NilError]
       ELSE IF offer.ServerNoContextTakeover /\ ~want.ServerNoContextTakeover
       THEN [n |-> n, accept |-> ZeroOption, err |-> NilError]
       ELSE NegotiateAccept([n1 EXCEPT !.accepted = TRUE], Option(want))

\* Mutant of NegotiateParsed: the check of server_no_context_takeover is
\* missing.
NegotiateParsedAnyTakeover(n, r) ==
    LET want == n.Parameters
        offer == r.p
        n1 == [n EXCEPT !.params = offer]
    IN IF r.err # NilError
       THEN [n |-> n1, accept |-> ZeroOption, err |-> r.err]
       ELSE IF offer.ServerMaxWindowBits > want.ServerMaxWindowBits
       THEN [n |-> n1, accept |-> ZeroOption, err |-> NilError]
       ELSE IF want.ClientMaxWindowBits > offer.ClientMaxWindowBits
       THEN [n |-> n1, accept |-> ZeroOption, err |-> NilError]
       ELSE NegotiateAccept([n1 EXCEPT !.accepted = TRUE], Option(want))

\* Mutant of NegotiateParsed: the client window is compared the way the server
\* window is (offer > want) instead of want > offer.
NegotiateParsedSymmetric(n, r) ==
    LET want == n.Parameters
        offer == r.p
        n1 == [n EXCEPT !.params = offer]
    IN IF r.err # NilError
       THEN [n |-> n1, accept |-> ZeroOption, err |-> r.err]
       ELSE IF offer.ServerMaxWindowBits > want.ServerMaxWindowBits
       THEN [n |-> n1, accept |-> ZeroOption, err |-> NilError]
       ELSE IF offer.ClientMaxWindowBits > want.ClientMaxWindowBits
       THEN [n |-> n1, accept |-> ZeroOption, err |-> NilError]
       ELSE IF offer.ServerNoContextTakeover /\ ~want.ServerNoContextTakeover
       THEN [n |-> n1, accept |-> ZeroOption, err |-> NilError]
       ELSE NegotiateAccept([n1 EXCEPT !.accepted = TRUE], Option(want))

\* Negotiate from the call of n.params.Parse(opt) on; r is what Parse did.
NegotiateParsed(n, r) ==
    LET want == n.Parameters
        offer == r.p
        n1 == [n EXCEPT !.params = offer]
    IN IF r.err # NilError
       THEN [n |-> n1, accept |-> ZeroOption, err |-> r.err]
       ELSE IF offer.ServerMaxWindowBits > want.ServerMaxWindowBits
       THEN [n |-> n1, accept |-> ZeroOption, err |-> NilError]
       ELSE IF want.ClientMaxWindowBits > offer.ClientMaxWindowBits
       THEN [n |-> n1, accept |-> ZeroOption, err |-> NilError]
       ELSE IF offer.ServerNoContextTakeover /\ ~want.ServerNoContextTakeover
       THEN [n |-> n1, accept |-> ZeroOption, err |-> NilError]
       ELSE NegotiateAccept([n1 EXCEPT !.accepted = TRUE], Option(want))

\* Mutant of Negotiate: the check of n.accepted is missing.
NegotiateEveryOffer(n, opt) ==
    IF opt.name # ExtensionName
    THEN [n |-> n, accept |-> ZeroOption, err |-> NilError]
    ELSE NegotiateParsed(n, Parse(n.params, opt))

\* (n *Extension).Negotiate(opt) on n = [Parameters, accepted, params]:
\* the Extension afterwards, the option returned and the error returned.
Negotiate(n, opt) ==
    IF opt.name # ExtensionName
    THEN [n |-> n, accept |-> ZeroOption, err |-> NilError]
    ELSE IF n.accepted
    THEN [n |-> n, accept |-> ZeroOption, err |-> NilError]
    ELSE NegotiateParsed(n, Parse(n.params, opt))

\* (n *Extension).Accepted()
Accepted(n) == [params |-> n.params, accepted |-> n.accepted]

\* Mutant of Reset: n.params is not cleared.
ResetAcceptedOnly(n) == [n EXCEPT !.accepted = FALSE]

\* (n *Extension).Reset()
Reset(n) == [n EXCEPT !.accepted = FALSE, !.params = ZeroParameters]

\* values the server is configured with
DesiredServerBits == {0, 10, 15}
DesiredClientBits == {0, 1, 15}

DesiredParameters ==
    [ServerNoContextTakeover : BOOLEAN, ClientNoContextTakeover : BOOLEAN,
     ServerMaxWindowBits : DesiredServerBits, ClientMaxWindowBits : DesiredClientBits]

\* parameters offered: client_max_window_bits bare and "15",
\* server_max_window_bits "15", server_no_context_takeover, an unknown key
OfferPairs ==
    {[key |-> clientMaxWindowBits, val |-> <<>>],
     [key |-> clientMaxWindowBits, val |-> Itoa(15)],
     [key |-> serverMaxWindowBits, val |-> Itoa(15)],
     [key |-> serverNoContextTakeover, val |-> <<>>],
     [key |-> unknownKey, val |-> <<>>]}

Offers ==
    {[name |-> ExtensionName, params |-> ps] : ps \in SeqsUpTo(OfferPairs, MaxOfferLen)}
    \cup {[name |-> OtherName, params |-> ps] : ps \in SeqsUpTo(OfferPairs, 1)}

NoAnswer == [params |-> ZeroParameters, accepted |-> FALSE]

\* the Extension object as the methods see it
Self == [Parameters |-> desired, accepted |-> accepted, params |-> params]

ExtInit ==
    /\ desired \in DesiredParameters
    /\ accepted = FALSE
    /\ params = ZeroParameters
    /\ op = "new"
    /\ arg = ZeroOption
    /\ ret = ZeroOption
    /\ err = NilError
    /\ got = NoAnswer
    /\ preAccepted = FALSE

DoNegotiate ==
    \E offer \in Offers : \E r \in {Negotiate(Self, offer)} :
        /\ desired' = r.n.Parameters
        /\ accepted' = r.n.accepted
        /\ params' = r.n.params
        /\ op' = "Negotiate"
        /\ arg' = offer
        /\ ret' = r.accept
        /\ err' = r.err
        /\ got' = NoAnswer
        /\ preAccepted' = accepted

DoAccepted ==
    /\ got' = Accepted(Self)
    /\ preAccepted' = accepted
    /\ op' = "Accepted"
    /\ arg' = ZeroOption
    /\ ret' = ZeroOption
    /\ err' = NilError
    /\ UNCHANGED <<desired, accepted, params>>

DoReset ==
    \E n \in {Reset(Self)} :
        /\ desired' = n.Parameters
        /\ accepted' = n.accepted
        /\ params' = n.params
        /\ op' = "Reset"
        /\ arg' = ZeroOption
        /\ ret' = ZeroOption
        /\ err' = NilError
        /\ got' = NoAnswer
        /\ preAccepted' = accepted

-----------------------------------------------------------------------------
(* RSV bit extenders *)

\* ws.RsvBits: the three reserved bits of a header's Rsv field
RsvBits(rsv) ==
    [r1 |-> (rsv \div 4) % 2 = 1, r2 |-> (rsv \div 2) % 2 = 1, r3 |-> rsv % 2 = 1]

\* ws.Rsv: the Rsv field holding the three bits
Rsv(r1, r2, r3) ==
    (IF r1 THEN 4 ELSE 0) + (IF r2 THEN 2 ELSE 0) + (IF r3 THEN 1 ELSE 0)

NoError == "nil"
errNonFirstFragmentEnabledBit == "non-first fragment contains compression bit enabled"
errAlreadySet == "wsflate: compression bit is already set"

\* Mutant of ExtendRead: r1 is left as it is on the first fragment too.
ExtendReadKeepsBit(fseq, rsv) ==
    LET b == RsvBits(rsv) IN
    IF fseq > 0 /\ b.r1 THEN [rsv |-> rsv, err |-> errNonFirstFragmentEnabledBit]
    ELSE [rsv |-> rsv, err |-> NoError]

\* Mutant of ExtendRead: r1 on a non-first fragment is not refused.
ExtendReadUnchecked(fseq, rsv) ==
    LET b == RsvBits(rsv) IN
    IF fseq > 0 THEN [rsv |-> rsv, err |-> NoError]
    ELSE [rsv |-> Rsv(FALSE, b.r2, b.r3), err |-> NoError]

ExtendRead(fseq, rsv) ==
    LET b == RsvBits(rsv) IN
    IF fseq > 0 /\ b.r1 THEN [rsv |-> rsv, err |-> errNonFirstFragmentEnabledBit]
    ELSE IF fseq > 0 THEN [rsv |-> rsv, err |-> NoError]
    ELSE [rsv |-> Rsv(FALSE, b.r2, b.r3), err |-> NoError]

\* Mutant of ExtendWrite: r1 is set on every fragment.
ExtendWriteEveryFragment(fseq, rsv) ==
    LET b == RsvBits(rsv) IN
    IF b.r1 THEN [rsv |-> rsv, err |-> errAlreadySet]
    ELSE [rsv |-> Rsv(TRUE, b.r2, b.r3), err |-> NoError]

ExtendWrite(fseq, rsv) ==
    LET b == RsvBits(rsv) IN
    IF b.r1 THEN [rsv |-> rsv, err |-> errAlreadySet]
    ELSE IF fseq > 0 THEN [rsv |-> rsv, err |-> NoError]
    ELSE [rsv |-> Rsv(TRUE, b.r2, b.r3), err |-> NoError]

\* the values of a header's 3-bit Rsv field
RsvValues == 0..7

RsvInit ==
    /\ xFseq = 0
    /\ xRsv = 0
    /\ xOp = "none"
    /\ xOut = 0
    /\ xErr = NoError

DoExtendRead ==
    \E fseq \in 0..MaxFseq, rsv \in RsvValues : \E r \in {ExtendRead(fseq, rsv)} :
        /\ xFseq' = fseq
        /\ xRsv' = rsv
        /\ xOp' = "ExtendRead"
        /\ xOut' = r.rsv
        /\ xErr' = r.err

DoExtendWrite ==
    \E fseq \in 0..MaxFseq, rsv \in RsvValues : \E r \in {ExtendWrite(fseq, rsv)} :
        /\ xFseq' = fseq
        /\ xRsv' = rsv
        /\ xOp' = "ExtendWrite"
        /\ xOut' = r.rsv
        /\ xErr' = r.err

\* A message goes out as fragments 0, 1, 2, ...: the sender passes each
\* header through ExtendWrite, the receiver passes what arrives through
\* ExtendRead with the same fragment index.
MsgInit ==
    /\ mPc = "start"
    /\ mIdx = 0
    /\ mHdr \in RsvValues
    /\ mWire = 0
    /\ mRecv = 0
    /\ mErr = NoError

MsgWrite ==
    /\ mPc = "start"
    /\ \E r \in {ExtendWrite(mIdx, mHdr)} :
          /\ mWire' = r.rsv
          /\ mErr' = r.err
          /\ mPc' = IF r.err = NoError THEN "written" ELSE "refused"
    /\ UNCHANGED <<mIdx, mHdr, mRecv>>

MsgRead ==
    /\ mPc = "written"
    /\ \E r \in {ExtendRead(mIdx, mWire)} :
          /\ mRecv' = r.rsv
          /\ mErr' = r.err
          /\ mPc' = IF r.err = NoError THEN "read" ELSE "refused"
    /\ UNCHANGED <<mIdx, mHdr, mWire>>

\* the next fragment of the message, with any header
MsgNextFragment ==
    /\ mPc = "read"
    /\ mIdx < MaxFseq
    /\ mIdx' = mIdx + 1
    /\ mHdr' \in RsvValues
    /\ mPc' = "start"
    /\ UNCHANGED <<mWire, mRecv, mErr>>

-----------------------------------------------------------------------------
(* Writer: the compressor's output without the tail of a flush *)

\* var compressionTail = [4]byte{0, 0, 0xff, 0xff}
compressionTail == <<0, 0, 255, 255>>

Min(a, b) == IF a < b THEN a ELSE b

\* cbuf: the delay buffer between the compressor and the destination. It
\* holds back the last bytes written to it, as many as compressionTail has,
\* and passes everything before them on to dst in the order written.
cbufZero == [held |-> <<>>, dst |-> "none"]

\* cbuf.reset(dst)
cbufReset(dst) == [held |-> <<>>, dst |-> dst]

\* cbuf.Write(p) with the destinations o: the buffer and the destinations
\* afterwards
cbufWrite(cb, o, p) ==
    LET all == cb.held \o p
        k == Min(Len(compressionTail), Len(all))
    IN [cbuf |-> [cb EXCEPT !.held = SubSeq(all, Len(all) - k + 1, Len(all))],
        out |-> [o EXCEPT ![cb.dst] = @ \o SubSeq(all, 1, Len(all) - k)]]

\* cbuf.buf, the array checkTail reads: the held bytes, zero where none is held
cbufBuf(cb) ==
    [i \in 1..Len(compressionTail) |-> IF i <= Len(cb.held) THEN cb.held[i] ELSE 0]

\* errors of the compressor and of checkTail
errWrite == "compressor: write failed"
errFlush == "compressor: flush failed"
errClose == "compressor: close failed"
errUnexpectedTail == "wsflate: bad compressor: unexpected stream tail"

\* A compressor is any implementation of the Compressor interface: what a
\* call of it writes into the cbuf and what it returns is its own business.
Emissions ==
    {<<>>, <<1>>, <<0, 0, 255, 255>>, <<1, 0, 0, 255, 255>>}
Outcomes(e) == [emit : Emissions, err : {NoError, e}]
NoOutcome == [emit |-> <<>>, err |-> NoError]

Destinations == {"A", "B"}

\* the Writer with what surrounds it, and what the operation in progress did
WriterState ==
    [w |-> [Dest |-> wDest, c |-> wC, err |-> wErr, cbuf |-> wCbuf],
     out |-> wOut, emitted |-> wEmitted, base |-> wBase,
     ret |-> NoError, calls |-> 0, cerr |-> NoError, factory |-> 0,
     creset |-> FALSE]

\* (w *Writer).init()
WriterInit(st) ==
    IF st.w.c = "nil"
    THEN [st EXCEPT !.w.cbuf = cbufReset(st.w.Dest),
                    !.w.c = "set",
                    !.factory = @ + 1,
                    !.emitted = <<>>,
                    !.base = Len(st.out[st.w.Dest])]
    ELSE st

\* a call of w.c.Write, w.c.Flush or c.Close with outcome o: what the
\* compressor emits goes into the cbuf, what it returns goes into w.err
CompressorCall(st, o) ==
    LET r == cbufWrite(st.w.cbuf, st.out, o.emit)
    IN [st EXCEPT !.w.cbuf = r.cbuf,
                  !.out = r.out,
                  !.emitted = @ \o o.emit,
                  !.calls = @ + 1,
                  !.cerr = o.err,
                  !.w.err = o.err]

\* Mutant of checkTail: the tail is not looked at.
checkTailSkipped(st) == st

\* (w *Writer).checkTail()
checkTail(st) ==
    IF st.w.err = NoError /\ cbufBuf(st.w.cbuf) # compressionTail
    THEN [st EXCEPT !.w.err = errUnexpectedTail]
    ELSE st

Returning(st) == [st EXCEPT !.ret = st.w.err]

\* Mutant of WriterWrite: the check of w.err is missing.
WriterWriteUnpoisoned(st, o) ==
    Returning(CompressorCall(WriterInit(st), o))

\* (w *Writer).Write(p)
WriterWrite(st, o) ==
    LET s1 == WriterInit(st)
    IN IF s1.w.err # NoError
       THEN Returning(s1)
       ELSE Returning(CompressorCall(s1, o))

\* Mutant of WriterFlush: checkTail is not called.
WriterFlushUnchecked(st, o) ==
    LET s1 == WriterInit(st)
    IN IF s1.w.err # NoError
       THEN Returning(s1)
       ELSE Returning(CompressorCall(s1, o))

\* (w *Writer).Flush()
WriterFlush(st, o) ==
    LET s1 == WriterInit(st)
    IN IF s1.w.err # NoError
       THEN Returning(s1)
       ELSE Returning(checkTail(CompressorCall(s1, o)))

\* (w *Writer).Close()
WriterClose(st, o, closer) ==
    IF st.w.err # NoError
    THEN Returning(st)
    ELSE LET s1 == WriterInit(st)
             s2 == IF closer THEN CompressorCall(s1, o) ELSE s1
         IN Returning(checkTail(s2))

\* (w *Writer).Err()
WriterErr(st) == Returning(st)

\* Mutant of WriterReset: the cbuf is emptied but stays bound to the
\* destination it had.
WriterResetOldDest(st, dest, resetter) ==
    LET s1 == WriterInit(st)
        s2 == [s1 EXCEPT !.w.err = NoError,
                         !.w.cbuf = cbufReset(s1.w.cbuf.dst),
                         !.emitted = <<>>,
                         !.base = Len(s1.out[s1.w.cbuf.dst])]
    IN IF resetter
       THEN [s2 EXCEPT !.creset = TRUE]
       ELSE [s2 EXCEPT !.factory = @ + 1]

\* Mutant of WriterReset: the cbuf is not reset.
WriterResetKeepsBuffer(st, dest, resetter) ==
    LET s1 == WriterInit(st)
        s2 == [s1 EXCEPT !.w.err = NoError,
                         !.emitted = <<>>,
                         !.base = Len(s1.out[s1.w.cbuf.dst])]
    IN IF resetter
       THEN [s2 EXCEPT !.creset = TRUE]
       ELSE [s2 EXCEPT !.factory = @ + 1]

\* (w *Writer).Reset(dest)
WriterReset(st, dest, resetter) ==
    LET s1 == WriterInit(st)
        s2 == [s1 EXCEPT !.w.err = NoError,
                         !.w.cbuf = cbufReset(dest),
                         !.emitted = <<>>,
                         !.base = Len(s1.out[dest])]
    IN IF resetter
       THEN [s2 EXCEPT !.creset = TRUE]
       ELSE [s2 EXCEPT !.factory = @ + 1]

\* a Writer as constructed: Dest and Compressor set, nothing else
WriterFresh ==
    /\ wDest = "A"
    /\ wC = "nil"
    /\ wErr = NoError
    /\ wCbuf = cbufZero
    /\ wOut = [d \in Destinations |-> <<>>]
    /\ cCloser \in BOOLEAN
    /\ cResetter \in BOOLEAN
    /\ wEmitted = <<>>
    /\ wBase = 0
    /\ wOp = "none"
    /\ wArg = "none"
    /\ wRet = NoError
    /\ wCalls = 0
    /\ wCErr = NoError
    /\ wFactory = 0
    /\ wCReset = FALSE
    /\ wResets = 0

\* the state after operation name left st
WriterStep(name, dest, st) ==
    /\ wC' = st.w.c
    /\ wErr' = st.w.err
    /\ wCbuf' = st.w.cbuf
    /\ wOut' = st.out
    /\ wEmitted' = st.emitted
    /\ wBase' = st.base
    /\ wOp' = name
    /\ wArg' = dest
    /\ wRet' = st.ret
    /\ wCalls' = st.calls
    /\ wCErr' = st.cerr
    /\ wFactory' = st.factory
    /\ wCReset' = st.creset
    /\ wResets' = IF name = "Reset" THEN wResets + 1 ELSE wResets
    /\ UNCHANGED <<wDest, cCloser, cResetter>>

\* the bytes in the destinations and the cbuf
Stored == Len(wOut["A"]) + Len(wOut["B"]) + Len(wCbuf.held)

DoWriterWrite ==
    \E o \in Outcomes(errWrite) :
        /\ Stored + Len(o.emit) <= MaxStream
        /\ \E st \in {WriterWrite(WriterState, o)} : WriterStep("Write", "none", st)

DoWriterFlush ==
    \E o \in Outcomes(errFlush) :
        /\ Stored + Len(o.emit) <= MaxStream
        /\ \E st \in {WriterFlush(WriterState, o)} : WriterStep("Flush", "none", st)

DoWriterClose ==
    \E o \in IF cCloser THEN Outcomes(errClose) ELSE {NoOutcome} :
        /\ Stored + Len(o.emit) <= MaxStream
        /\ \E st \in {WriterClose(WriterState, o, cCloser)} : WriterStep("Close", "none", st)

DoWriterErr ==
    \E st \in {WriterErr(WriterState)} : WriterStep("Err", "none", st)

DoWriterReset ==
    \E dest \in Destinations :
        /\ wResets < MaxResets
        /\ \E st \in {WriterReset(WriterState, dest, cResetter)} : WriterStep("Reset", dest, st)

-----------------------------------------------------------------------------
(* Reader: the source followed by the tail a flush had removed *)

\* var compressionReadTail = [9]byte{0, 0, 0xff, 0xff, 1, 0, 0, 0xff, 0xff}
compressionReadTail == <<0, 0, 255, 255, 1, 0, 0, 255, 255>>

EOF == "EOF"

Sources == {"S", "T"}

\* the bytes a source may hold: the first is 11 in S and 21 in T
SourceBytes(src) ==
    LET first == IF src = "S" THEN 11 ELSE 21
    IN {[i \in 1..n |-> first + i - 1] : n \in 0..MaxSource}

\* suffixedReader: reads of it are reads of r until r reports io.EOF, then
\* they deliver suffix from pos on, then they report io.EOF.
srZero == [r |-> "nil", suffix |-> <<>>, pos |-> 0]

\* suffixedReader.reset(src)
srReset(sr, src) == [sr EXCEPT !.r = src, !.pos = 0]

\* suffixedReader.Read(p) with len(p) = k, where the source, if it is asked,
\* returns n bytes and io.EOF if eof is set: the reader and the sources
\* afterwards, the bytes put in p and the error returned
srRead(sr, data, pos, k, n, eof) ==
    IF sr.r # "nil"
    THEN [sr |-> IF eof THEN [sr EXCEPT !.r = "nil"] ELSE sr,
          pos |-> [pos EXCEPT ![sr.r] = @ + n],
          p |-> SubSeq(data[sr.r], pos[sr.r] + 1, pos[sr.r] + n),
          err |-> NoError]
    ELSE IF sr.pos >= Len(sr.suffix)
    THEN [sr |-> sr, pos |-> pos, p |-> <<>>, err |-> EOF]
    ELSE LET m == Min(k, Len(sr.suffix) - sr.pos)
         IN [sr |-> [sr EXCEPT !.pos = @ + m],
             pos |-> pos,
             p |-> SubSeq(sr.suffix, sr.pos + 1, sr.pos + m),
             err |-> NoError]

\* what a source may answer to a Read into k bytes when left bytes are left:
\* some of them, with io.EOF or without once they are the last, and io.EOF
\* alone when none is left
SourceAnswers(k, left) ==
    IF left = 0 THEN {[n |-> 0, eof |-> TRUE]}
    ELSE {a \in [n : 1..Min(k, left), eof : BOOLEAN] : a.eof => a.n = left}

\* the Reader with what surrounds it, and what the operation in progress did
ReaderState ==
    [r |-> [Source |-> rdSource, d |-> rdD, err |-> rdErr, sr |-> rdSr],
     pos |-> srcPos, bound |-> rdBound, from |-> rdFrom, given |-> rdGiven,
     eof |-> rdEOF, factory |-> 0]

\* the decompressor is bound to the suffixedReader, which reads src
Bind(st, src) ==
    [st EXCEPT !.bound = src, !.from = st.pos[src], !.given = <<>>, !.eof = FALSE]

\* (r *Reader).init()
ReaderInit(st) ==
    IF st.r.d = "nil"
    THEN Bind([st EXCEPT !.r.sr = srReset([st.r.sr EXCEPT !.suffix = compressionReadTail],
                                          st.r.Source),
                         !.r.d = "set",
                         !.factory = @ + 1],
              st.r.Source)
    ELSE st

\* Mutant of ReaderReset: the suffixedReader is not reset.
ReaderResetKeepsReader(st, src, resetter) ==
    LET s1 == ReaderInit(st)
        s2 == Bind([s1 EXCEPT !.r.err = NoError, !.r.Source = src], src)
    IN IF resetter THEN s2 ELSE [s2 EXCEPT !.factory = @ + 1]

\* (r *Reader).Reset(src)
ReaderReset(st, src, resetter) ==
    LET s1 == ReaderInit(st)
        s2 == Bind([s1 EXCEPT !.r.err = NoError,
                              !.r.Source = src,
                              !.r.sr = srReset(s1.r.sr, src)],
                   src)
    IN IF resetter THEN s2 ELSE [s2 EXCEPT !.factory = @ + 1]

\* (r *Reader).Read(p), in which the decompressor reads once from the
\* suffixedReader, into k bytes, and the source answers a
ReaderRead(st, data, k, a) ==
    LET s1 == ReaderInit(st)
    IN IF s1.r.err # NoError
       THEN s1
       ELSE LET x == srRead(s1.r.sr, data, s1.pos, k, a.n, a.eof)
            IN [s1 EXCEPT !.r.sr = x.sr,
                          !.pos = x.pos,
                          !.given = @ \o x.p,
                          !.eof = x.err = EOF]

\* (r *Reader).Close()
ReaderClose(st) == ReaderInit(st)

\* a Reader as constructed: Source and Decompressor set, nothing else
ReaderFresh ==
    /\ rdSource \in Sources
    /\ rdD = "nil"
    /\ rdErr = NoError
    /\ rdSr = srZero
    /\ srcData \in [Sources -> UNION {SourceBytes(src) : src \in Sources}]
    /\ \A src \in Sources : srcData[src] \in SourceBytes(src)
    /\ srcPos = [src \in Sources |-> 0]
    /\ dResetter \in BOOLEAN
    /\ rdBound = rdSource
    /\ rdFrom = 0
    /\ rdGiven = <<>>
    /\ rdEOF = FALSE
    /\ rdOp = "none"
    /\ rdFactory = 0

\* the state after operation name left st
ReaderStep(name, st) ==
    /\ rdSource' = st.r.Source
    /\ rdD' = st.r.d
    /\ rdErr' = st.r.err
    /\ rdSr' = st.r.sr
    /\ srcPos' = st.pos
    /\ rdBound' = st.bound
    /\ rdFrom' = st.from
    /\ rdGiven' = st.given
    /\ rdEOF' = st.eof
    /\ rdOp' = name
    /\ rdFactory' = st.factory
    /\ UNCHANGED <<srcData, dResetter>>

\* the source a Read of the decompressor would reach, and what it has left
SourceAsked == IF rdD = "nil" THEN rdSource ELSE rdSr.r
SourceLeft ==
    IF SourceAsked = "nil" THEN 0
    ELSE Len(srcData[SourceAsked]) - srcPos[SourceAsked]

DoReaderRead ==
    \E k \in 1..MaxRead : \E a \in SourceAnswers(k, SourceLeft) :
        \E st \in {ReaderRead(ReaderState, srcData, k, a)} : ReaderStep("Read", st)

DoReaderClose ==
    \E st \in {ReaderClose(ReaderState)} : ReaderStep("Close", st)

DoReaderReset ==
    \E src \in Sources :
        \E st \in {ReaderReset(ReaderState, src, dResetter)} : ReaderStep("Reset", st)

-----------------------------------------------------------------------------
(* Specifications *)

ExtIdle ==
    /\ desired = ZeroParameters
    /\ accepted = FALSE
    /\ params = ZeroParameters
    /\ op = "new"
    /\ arg = ZeroOption
    /\ ret = ZeroOption
    /\ err = NilError
    /\ got = NoAnswer
    /\ preAccepted = FALSE

ParseIdle ==
    /\ pOpt = ZeroOption
    /\ pRecv = ZeroParameters
    /\ pRes = NoResult
    /\ pPc = "idle"

TripIdle ==
    /\ rP = ZeroParameters
    /\ rOpt = NoEncoding
    /\ rRes = NoResult
    /\ rPc = "idle"

RsvIdle == RsvInit

MsgIdle ==
    /\ mPc = "idle"
    /\ mIdx = 0
    /\ mHdr = 0
    /\ mWire = 0
    /\ mRecv = 0
    /\ mErr = NoError

WriterIdle ==
    /\ wDest = "A"
    /\ wC = "nil"
    /\ wErr = NoError
    /\ wCbuf = cbufZero
    /\ wOut = [d \in Destinations |-> <<>>]
    /\ cCloser = FALSE
    /\ cResetter = FALSE
    /\ wEmitted = <<>>
    /\ wBase = 0
    /\ wOp = "none"
    /\ wArg = "none"
    /\ wRet = NoError
    /\ wCalls = 0
    /\ wCErr = NoError
    /\ wFactory = 0
    /\ wCReset = FALSE
    /\ wResets = 0

ReaderIdle ==
    /\ rdSource = "S"
    /\ rdD = "nil"
    /\ rdErr = NoError
    /\ rdSr = srZero
    /\ srcData = [src \in Sources |-> <<>>]
    /\ srcPos = [src \in Sources |-> 0]
    /\ dResetter = FALSE
    /\ rdBound = "S"
    /\ rdFrom = 0
    /\ rdGiven = <<>>
    /\ rdEOF = FALSE
    /\ rdOp = "none"
    /\ rdFactory = 0

notExt == <<parseVars, tripVars, rsvVars, msgVars, writerVars, readerVars>>
notParse == <<extVars, tripVars, rsvVars, msgVars, writerVars, readerVars>>
notTrip == <<extVars, parseVars, rsvVars, msgVars, writerVars, readerVars>>
notRsv == <<extVars, parseVars, tripVars, msgVars, writerVars, readerVars>>
notMsg == <<extVars, parseVars, tripVars, rsvVars, writerVars, readerVars>>
notWriter == <<extVars, parseVars, tripVars, rsvVars, msgVars, readerVars>>
notReader == <<extVars, parseVars, tripVars, rsvVars, msgVars, writerVars>>

\* the negotiation object under any sequence of calls
Init == ExtInit /\ ParseIdle /\ TripIdle /\ RsvInit /\ MsgIdle /\ WriterIdle /\ ReaderIdle

Next ==
    \/ DoNegotiate /\ UNCHANGED notExt
    \/ DoAccepted /\ UNCHANGED notExt
    \/ DoReset /\ UNCHANGED notExt

Spec == Init /\ [][Next]_vars

\* Parse on every option of the input set
InitParse == ExtIdle /\ ParseInit /\ TripIdle /\ RsvInit /\ MsgIdle /\ WriterIdle /\ ReaderIdle

NextParse == DoParse /\ UNCHANGED notParse

SpecParse == InitParse /\ [][NextParse]_vars

\* Option then Parse on every Parameters value of the input set
InitTrip == ExtIdle /\ ParseIdle /\ TripInit /\ RsvInit /\ MsgIdle /\ WriterIdle /\ ReaderIdle

NextTrip ==
    \/ TripOption /\ UNCHANGED notTrip
    \/ TripParse /\ UNCHANGED notTrip

SpecTrip == InitTrip /\ [][NextTrip]_vars

\* ExtendRead and ExtendWrite on every fragment index and rsv value
InitRsv == ExtIdle /\ ParseIdle /\ TripIdle /\ RsvInit /\ MsgIdle /\ WriterIdle /\ ReaderIdle

NextRsv ==
    \/ DoExtendRead /\ UNCHANGED notRsv
    \/ DoExtendWrite /\ UNCHANGED notRsv

SpecRsv == InitRsv /\ [][NextRsv]_vars

\* the fragments of one message written and read back
InitMsg == ExtIdle /\ ParseIdle /\ TripIdle /\ RsvIdle /\ MsgInit /\ WriterIdle /\ ReaderIdle

NextMsg ==
    \/ MsgWrite /\ UNCHANGED notMsg
    \/ MsgRead /\ UNCHANGED notMsg
    \/ MsgNextFragment /\ UNCHANGED notMsg

SpecMsg == InitMsg /\ [][NextMsg]_vars

\* a Writer under any sequence of Write, Flush, Close, Err and Reset
InitWriter == ExtIdle /\ ParseIdle /\ TripIdle /\ RsvIdle /\ MsgIdle /\ WriterFresh /\ ReaderIdle

NextWriter ==
    \/ DoWriterWrite /\ UNCHANGED notWriter
    \/ DoWriterFlush /\ UNCHANGED notWriter
    \/ DoWriterClose /\ UNCHANGED notWriter
    \/ DoWriterErr /\ UNCHANGED notWriter
    \/ DoWriterReset /\ UNCHANGED notWriter

SpecWriter == InitWriter /\ [][NextWriter]_vars

\* a Reader under any sequence of Read, Close and Reset
InitReader ==
    ExtIdle /\ ParseIdle /\ TripIdle /\ RsvIdle /\ MsgIdle /\ WriterIdle /\ ReaderFresh

NextReader ==
    \/ DoReaderRead /\ UNCHANGED notReader
    \/ DoReaderClose /\ UNCHANGED notReader
    \/ DoReaderReset /\ UNCHANGED notReader

SpecReader == InitReader /\ [][NextReader]_vars


-----------------------------------------------------------------------------
(* Properties of the negotiation object (specification Spec) *)

RecognizedKeys ==
    {clientMaxWindowBits, serverMaxWindowBits, clientNoContextTakeover, serverNoContextTakeover}

\* what Parse makes of an option, on a fresh receiver
ParseOf(o) == Parse(ZeroParameters, o)
Malformed(o) == ParseOf(o).err # NilError

\* the three reasons to decline a well-formed offer
Incompatible(offer, want) ==
    \/ offer.ServerMaxWindowBits > want.ServerMaxWindowBits
    \/ want.ClientMaxWindowBits > offer.ClientMaxWindowBits
    \/ offer.ServerNoContextTakeover /\ ~want.ServerNoContextTakeover

\* a Negotiate step that reaches the parse of its offer
ParsingStep == op' = "Negotiate" /\ ~accepted /\ arg'.name = ExtensionName

\* C1: once an offer has been accepted, every later Negotiate call, whatever
\* its offer, returns the zero option with a nil error and leaves accepted
\* and the observed Parameters as they were; only Reset ends this.
C1_FirstAcceptedWins ==
    [][(accepted /\ op' = "Negotiate") =>
          /\ ret' = ZeroOption
          /\ err' = NilError
          /\ accepted'
          /\ params' = params]_vars

\* C1 witness: a malformed permessage-deflate offer was given to an Extension
\* that had already accepted, and was answered with "no opinion".
C1_Witness ==
    /\ op = "Negotiate"
    /\ preAccepted
    /\ accepted
    /\ arg.name = ExtensionName
    /\ Malformed(arg)
    /\ ret = ZeroOption
    /\ err = NilError

\* C2 as claimed: a Negotiate call whose offer fails to parse returns the
\* parse error, leaves accepted false and leaves the observed Parameters as
\* they were before the call.
C2_ParseErrorLeavesObserved ==
    [][(ParsingStep /\ Malformed(arg')) =>
          /\ err' = ParseOf(arg').err
          /\ ~accepted'
          /\ params' = params]_vars

\* C2 as amended: a Negotiate call on a not yet accepted Extension whose
\* permessage-deflate offer fails to parse returns the parse error and leaves
\* accepted false, and the observed Parameters are overwritten by what Parse
\* left behind: the zero Parameters updated by the parameters processed
\* before the error.
C2_ParseErrorOverwritesObserved ==
    [][(ParsingStep /\ Malformed(arg')) =>
          /\ err' = ParseOf(arg').err
          /\ err' # NilError
          /\ ret' = ZeroOption
          /\ ~accepted'
          /\ params' = ParseOf(arg').p]_vars

\* C2 witness: a failed parse left a partly parsed offer in observed.
C2_Witness ==
    /\ op = "Negotiate"
    /\ ~preAccepted
    /\ err.reason = "unexpected"
    /\ ~accepted
    /\ params # ZeroParameters

\* C3: a well-formed permessage-deflate offer to a not yet accepted Extension
\* is declined (zero option, nil error, accepted stays false) exactly when it
\* is incompatible with desired in one of the three ways; otherwise accepted
\* becomes true and desired.Option() is returned.
C3_DeclineExactlyWhenIncompatible ==
    [][(ParsingStep /\ ~Malformed(arg')) =>
          IF Incompatible(ParseOf(arg').p, desired)
          THEN ret' = ZeroOption /\ err' = NilError /\ ~accepted'
          ELSE ret' = Option(desired).opt /\ err' = NilError /\ accepted']_vars

\* C3 witness: server_max_window_bits=15 offered to a server that desires 10
\* is declined.
C3_Witness ==
    /\ op = "Negotiate"
    /\ ~preAccepted
    /\ desired.ServerMaxWindowBits = 10
    /\ arg = [name |-> ExtensionName,
              params |-> <<[key |-> serverMaxWindowBits, val |-> <<49, 53>>]>>]
    /\ ret = ZeroOption
    /\ err = NilError
    /\ ~accepted

\* C4: Reset clears accepted and observed from any state, nothing else turns
\* accepted from true to false, a Negotiate call right after Reset accepts an
\* acceptable offer, and no method changes desired.
C4_ResetClears ==
    [][/\ (op' = "Reset" => ~accepted' /\ params' = ZeroParameters)
       /\ (accepted /\ ~accepted' => op' = "Reset")
       /\ (op = "Reset" /\ ParsingStep /\ ~Malformed(arg')
             /\ ~Incompatible(ParseOf(arg').p, desired) => accepted')
       /\ (op' = "Accepted" => got' = [params |-> params, accepted |-> accepted])
       /\ desired' = desired]_vars

\* C4 witness: Reset was called on an Extension that had accepted an offer.
C4_Witness ==
    /\ op = "Reset"
    /\ preAccepted
    /\ ~accepted
    /\ params = ZeroParameters

-----------------------------------------------------------------------------
(* Properties of Parse (specification SpecParse) *)

HasKeyTwice(ps) ==
    \E i, j \in 1..Len(ps) : i < j /\ ps[i].key = ps[j].key /\ ps[i].key \in RecognizedKeys

\* the value forms the wire encoding allows for a key
DecimalForms == {Itoa(n) : n \in 8..15}
ValueForms(key) ==
    CASE key = clientMaxWindowBits -> {<<>>} \cup DecimalForms
      [] key = serverMaxWindowBits -> DecimalForms
      [] OTHER -> {<<>>}

\* C5: an option in which a recognized key occurs twice, each time in a value
\* form allowed for it, is rejected with a "duplicate" error.
C5_DuplicateRejected ==
    (/\ pPc = "done"
     /\ Len(pOpt.params) = 2
     /\ HasKeyTwice(pOpt.params)
     /\ \A i \in 1..2 : pOpt.params[i].val \in ValueForms(pOpt.params[i].key))
    => pRes.err.reason = "duplicate"

HasUnknownKey(ps) == \E i \in 1..Len(ps) : ps[i].key \notin RecognizedKeys
FirstUnknown(ps) == CHOOSE i \in 1..Len(ps) :
    /\ ps[i].key \notin RecognizedKeys
    /\ \A j \in 1..(i - 1) : ps[j].key \in RecognizedKeys

\* C6 as claimed: an option holding an unknown key is rejected with an
\* "unexpected" error, wherever the key stands and whatever else is there.
C6_UnknownAlwaysUnexpected ==
    (pPc = "done" /\ HasUnknownKey(pOpt.params)) => pRes.err.reason = "unexpected"

\* C6 as amended: an option holding an unknown key is always rejected; the
\* error is "unexpected", naming the first unknown key, exactly when the
\* parameters before that key parse without error, and otherwise it is the
\* error of the first failing parameter before it.
C6_UnknownRejectedFirstErrorWins ==
    (pPc = "done" /\ HasUnknownKey(pOpt.params)) =>
        LET i == FirstUnknown(pOpt.params)
            before == ParseOf([pOpt EXCEPT !.params = SubSeq(pOpt.params, 1, i - 1)])
        IN /\ pRes.err # NilError
           /\ before.err = NilError =>
                 pRes.err = paramError("unexpected", pOpt.params[i].key, pOpt.params[i].val)
           /\ before.err # NilError =>
                 pRes.err = before.err /\ pRes.err.reason \in {"invalid", "duplicate"}

\* C6 witness: an unknown key in last position, after two well-formed
\* parameters, is reported as unexpected.
C6_Witness ==
    /\ pPc = "done"
    /\ Len(pOpt.params) = 3
    /\ pOpt.params[1].key = serverMaxWindowBits
    /\ pOpt.params[2].key = clientNoContextTakeover
    /\ pOpt.params[3].key = unknownKey
    /\ pRes.err.reason = "unexpected"

\* the pairs Parse must refuse
BadPair(kv) ==
    \/ kv.key = serverMaxWindowBits /\ kv.val = <<>>
    \/ kv.key \in {serverMaxWindowBits, clientMaxWindowBits}
         /\ kv.val # <<>> /\ kv.val \notin DecimalForms
    \/ kv.key \in {serverNoContextTakeover, clientNoContextTakeover} /\ kv.val # <<>>
HasKey(ps, key) == \E i \in 1..Len(ps) : ps[i].key = key
DecimalOf(val) == CHOOSE n \in 8..15 : Itoa(n) = val

\* C8: Parse forgets the receiver, fails on a valueless server_max_window_bits,
\* on a *_max_window_bits value that is not the decimal form of 8..15 and on
\* a *_no_context_takeover with a value; on success ClientMaxWindowBits is 1
\* for the bare form and the parsed value otherwise, ServerMaxWindowBits is
\* the parsed value, a flag is true exactly when its key is present and the
\* fields of absent keys are zero.
C8_ParseIsFunctionOfOption ==
    pPc = "done" =>
        LET ps == pOpt.params
            p == pRes.p
        IN /\ pRes = ParseOf(pOpt)
           /\ (\E i \in 1..Len(ps) : BadPair(ps[i])) => pRes.err # NilError
           /\ pRes.err = NilError =>
                /\ \A i \in 1..Len(ps) :
                      /\ ps[i].key = clientMaxWindowBits =>
                            p.ClientMaxWindowBits =
                                IF ps[i].val = <<>> THEN 1 ELSE DecimalOf(ps[i].val)
                      /\ ps[i].key = serverMaxWindowBits =>
                            p.ServerMaxWindowBits = DecimalOf(ps[i].val)
                /\ p.ClientNoContextTakeover = HasKey(ps, clientNoContextTakeover)
                /\ p.ServerNoContextTakeover = HasKey(ps, serverNoContextTakeover)
                /\ ~HasKey(ps, clientMaxWindowBits) => p.ClientMaxWindowBits = 0
                /\ ~HasKey(ps, serverMaxWindowBits) => p.ServerMaxWindowBits = 0

-----------------------------------------------------------------------------
(* Properties of Option followed by Parse (specification SpecTrip) *)

RoundTripBits == {1} \cup 8..15

\* C7 as claimed: for window bits in 8..15, and for a field holding 1 (server
\* or client), Parse(p.Option()) succeeds and yields p again.
C7_RoundTripAnyField ==
    (/\ rPc = "parsed"
     /\ rP.ServerMaxWindowBits \in RoundTripBits
     /\ rP.ClientMaxWindowBits \in RoundTripBits)
    => rRes.err = NilError /\ rRes.p = rP

\* C7 as amended: Parse(p.Option()) succeeds and yields p again (window bits
\* and both flags) when ServerMaxWindowBits is 0 or in 8..15 and
\* ClientMaxWindowBits is 0, 1 or in 8..15; when ServerMaxWindowBits is 1,
\* Option() emits the key without a value and Parse rejects it as invalid.
C7_RoundTripExceptBareServer ==
    /\ (rPc = "encoded" /\ rP.ServerMaxWindowBits = 1) =>
          \E i \in 1..Len(rOpt.opt.params) :
              rOpt.opt.params[i] = [key |-> serverMaxWindowBits, val |-> <<>>]
    /\ rPc = "parsed" =>
          IF rP.ServerMaxWindowBits = 1
          THEN rRes.err = paramError("invalid", serverMaxWindowBits, <<>>)
          ELSE rRes.err = NilError /\ rRes.p = rP
    /\ (/\ rPc \in {"encoded", "panicked"}
        /\ rP.ServerMaxWindowBits \in {0, 1} \cup 8..15
        /\ rP.ClientMaxWindowBits \in {0, 1} \cup 8..15) => rPc = "encoded"

\* C7 witness: a bare client_max_window_bits, server_max_window_bits=12 and
\* a flag came back unchanged.
C7_Witness ==
    /\ rPc = "parsed"
    /\ rP.ClientMaxWindowBits = 1
    /\ rP.ServerMaxWindowBits = 12
    /\ rP.ServerNoContextTakeover
    /\ ~rP.ClientNoContextTakeover
    /\ rRes.err = NilError
    /\ rRes.p = rP

-----------------------------------------------------------------------------
(* Properties of the RSV extenders (specification SpecRsv) *)

\* C9: ExtendRead fails on a non-first fragment with r1 set, passes a
\* non-first fragment with r1 clear through unchanged, and on the first
\* fragment returns rsv with r1 cleared; r2 and r3 are kept whenever it
\* succeeds.
C9_ExtendRead ==
    xOp = "ExtendRead" =>
        LET i == RsvBits(xRsv)
            o == RsvBits(xOut)
        IN /\ (xFseq > 0 /\ i.r1) => xErr = errNonFirstFragmentEnabledBit
           /\ (xFseq > 0 /\ ~i.r1) => xErr = NoError /\ xOut = xRsv
           /\ xFseq = 0 =>
                /\ xErr = NoError
                /\ xOut = IF i.r1 THEN xRsv - 4 ELSE xRsv
                /\ ~o.r1
           /\ xErr = NoError => o.r2 = i.r2 /\ o.r3 = i.r3

\* C9 witness: fragment 2 with r1 set was refused.
C9_Witness ==
    /\ xOp = "ExtendRead"
    /\ xFseq = 2
    /\ RsvBits(xRsv).r1
    /\ xErr = errNonFirstFragmentEnabledBit

\* C10: ExtendWrite fails whenever r1 is already set, passes a non-first
\* fragment through unchanged and sets r1 on the first fragment; r2 and r3
\* are kept whenever it succeeds, and r1 is never set on a non-first fragment.
C10_ExtendWrite ==
    xOp = "ExtendWrite" =>
        LET i == RsvBits(xRsv)
            o == RsvBits(xOut)
        IN /\ i.r1 => xErr = errAlreadySet
           /\ (~i.r1 /\ xFseq > 0) => xErr = NoError /\ xOut = xRsv
           /\ (~i.r1 /\ xFseq = 0) => xErr = NoError /\ xOut = xRsv + 4 /\ o.r1
           /\ xErr = NoError => o.r2 = i.r2 /\ o.r3 = i.r3
           /\ (xErr = NoError /\ xFseq > 0) => ~o.r1

\* C10 witness: a non-first fragment whose r1 was already set was refused.
C10_Witness ==
    /\ xOp = "ExtendWrite"
    /\ xFseq > 0
    /\ RsvBits(xRsv).r1
    /\ xErr = errAlreadySet

\* C11: for a message whose fragment headers all have r1 clear, ExtendWrite
\* succeeds on every fragment and sets r1 on fragment 0 and on no other;
\* ExtendRead with the same index on the written header never fails and gives
\* back the header the sender started from; a 000 header at index 0 goes out
\* as 100 and comes back as 000.
C11_WriteThenReadRestores ==
    ~RsvBits(mHdr).r1 =>
        /\ mPc # "refused"
        /\ mPc \in {"written", "read"} =>
              /\ RsvBits(mWire).r1 <=> mIdx = 0
              /\ RsvBits(mWire).r2 = RsvBits(mHdr).r2
              /\ RsvBits(mWire).r3 = RsvBits(mHdr).r3
        /\ mPc = "read" => mErr = NoError /\ mRecv = mHdr
        /\ (mPc = "read" /\ mIdx = 0 /\ mHdr = 0) => mWire = 4 /\ mRecv = 0

\* C11 witness: fragment 2 with header 011 went out unchanged and came back
\* as 011, after fragments 0 and 1 had made the trip.
C11_Witness ==
    /\ mPc = "read"
    /\ mIdx = 2
    /\ mHdr = 3
    /\ mWire = 3
    /\ mRecv = 3

\* a Negotiate step whose offer is well-formed and declined
DeclineStep ==
    /\ ParsingStep
    /\ ~Malformed(arg')
    /\ Incompatible(ParseOf(arg').p, desired)

\* a Negotiate step whose offer is for another extension
OtherNameStep == op' = "Negotiate" /\ arg'.name # ExtensionName

\* C18 as claimed: a call that declines a well-formed offer, and a call whose
\* offer is not for permessage-deflate, return the zero option with a nil
\* error and leave accepted and the observed Parameters as they were.
C18_OnlyAcceptWritesObserved ==
    [][(DeclineStep \/ OtherNameStep) =>
          /\ ret' = ZeroOption
          /\ err' = NilError
          /\ accepted' = accepted
          /\ params' = params]_vars

\* C18 as amended: a call whose offer is not for permessage-deflate returns
\* the zero option with a nil error and leaves accepted and observed as they
\* were; a call that declines a well-formed offer returns the zero option
\* with a nil error and leaves accepted false, and observed becomes the parse
\* of the declined offer.
C18_DeclineWritesObserved ==
    [][/\ OtherNameStep =>
             /\ ret' = ZeroOption
             /\ err' = NilError
             /\ accepted' = accepted
             /\ params' = params
       /\ DeclineStep =>
             /\ ret' = ZeroOption
             /\ err' = NilError
             /\ ~accepted'
             /\ params' = ParseOf(arg').p]_vars

\* C18 witness: a well-formed offer was declined and is what observed holds.
C18_Witness ==
    /\ op = "Negotiate"
    /\ ~preAccepted
    /\ ~accepted
    /\ arg.name = ExtensionName
    /\ err = NilError
    /\ ret = ZeroOption
    /\ params = ParseOf(arg).p
    /\ params # ZeroParameters

\* C19: whenever accepted is true, observed is compatible with desired in the
\* three ways Negotiate checks; observed is the parse of the offer at the
\* step that sets accepted and does not change while accepted stays true.
C19_AcceptedImpliesCompatible ==
    /\ [](accepted =>
             /\ params.ServerMaxWindowBits <= desired.ServerMaxWindowBits
             /\ desired.ClientMaxWindowBits <= params.ClientMaxWindowBits
             /\ params.ServerNoContextTakeover => desired.ServerNoContextTakeover)
    /\ [][/\ (~accepted /\ accepted') =>
                op' = "Negotiate" /\ params' = ParseOf(arg').p
          /\ (accepted /\ accepted') => params' = params]_vars

\* C19 witness: an offer with server_no_context_takeover and a client window
\* of 15 was accepted by an Extension that desires both.
C19_Witness ==
    /\ accepted
    /\ op = "Negotiate"
    /\ ~preAccepted
    /\ params.ServerNoContextTakeover
    /\ desired.ServerNoContextTakeover
    /\ desired.ClientMaxWindowBits = 1
    /\ params.ClientMaxWindowBits = 15

\* the values a window-bits field may hold
LegalBits == {0, 1} \cup 8..15

\* the decimal text of a window size
DecimalText ==
    [v \in 8..15 |->
        CASE v = 8 -> <<56>>
          [] v = 9 -> <<57>>
          [] v = 10 -> <<49, 48>>
          [] v = 11 -> <<49, 49>>
          [] v = 12 -> <<49, 50>>
          [] v = 13 -> <<49, 51>>
          [] v = 14 -> <<49, 52>>
          [] v = 15 -> <<49, 53>>]

\* the values an option carries under a key, one per parameter of that key
ValuesOf(opt, key) == {i \in 1..Len(opt.params) : opt.params[i].key = key}
ValueOf(opt, key) == opt.params[CHOOSE i \in ValuesOf(opt, key) : TRUE].val

FlagEmitted(opt, key, flag) ==
    IF flag
    THEN Cardinality(ValuesOf(opt, key)) = 1 /\ ValueOf(opt, key) = <<>>
    ELSE ValuesOf(opt, key) = {}

BitsEmitted(opt, key, bits) ==
    IF bits = 0 THEN ValuesOf(opt, key) = {}
    ELSE /\ Cardinality(ValuesOf(opt, key)) = 1
         /\ bits = 1 => ValueOf(opt, key) = <<>>
         /\ bits \in 8..15 => ValueOf(opt, key) = DecimalText[bits]

\* C20: Option() panics exactly when a window-bits field holds a value
\* outside {0, 1, 8..15}; otherwise it returns a permessage-deflate option
\* that carries a *_no_context_takeover flag exactly when the flag is true
\* and a *_max_window_bits parameter exactly when the field is above zero,
\* bare for 1 and in decimal text for 8..15, and nothing else.
C20_OptionEmits ==
    rPc \in {"encoded", "panicked", "parsed"} =>
        /\ rOpt.panic <=> (rP.ServerMaxWindowBits \notin LegalBits
                           \/ rP.ClientMaxWindowBits \notin LegalBits)
        /\ rPc = "panicked" <=> rOpt.panic
        /\ ~rOpt.panic =>
              /\ rOpt.opt.name = ExtensionName
              /\ FlagEmitted(rOpt.opt, serverNoContextTakeover, rP.ServerNoContextTakeover)
              /\ FlagEmitted(rOpt.opt, clientNoContextTakeover, rP.ClientNoContextTakeover)
              /\ BitsEmitted(rOpt.opt, serverMaxWindowBits, rP.ServerMaxWindowBits)
              /\ BitsEmitted(rOpt.opt, clientMaxWindowBits, rP.ClientMaxWindowBits)
              /\ \A i \in 1..Len(rOpt.opt.params) :
                    rOpt.opt.params[i].key \in RecognizedKeys

\* C20 witness: a server window of 5 made Option() panic.
C20_Witness ==
    /\ rPc = "panicked"
    /\ rP.ServerMaxWindowBits = 5
    /\ rP.ClientMaxWindowBits = 15

\* the operations of a Writer that go to the compressor
CompressorOps == {"Write", "Flush", "Close"}

\* C12: a non-nil error returned by Write, Flush or Close is kept in the
\* Writer; while it is kept, every Write, Flush and Close returns it without
\* calling the compressor and without moving a byte, and Err() reports it;
\* Reset clears it, and on a Writer without error Write and Flush call the
\* compressor, and Close does when the compressor is an io.Closer.
C12_ErrorSticksUntilReset ==
    [][/\ (wOp' \in CompressorOps /\ wRet' # NoError) => wErr' = wRet'
       /\ (wErr # NoError /\ wOp' \in CompressorOps) =>
             /\ wRet' = wErr
             /\ wErr' = wErr
             /\ wCalls' = 0
             /\ wOut' = wOut
             /\ wCbuf' = wCbuf
             /\ wEmitted' = wEmitted
       /\ wOp' = "Err" => wRet' = wErr /\ wErr' = wErr
       /\ wOp' = "Reset" => wErr' = NoError
       /\ (wErr = NoError /\ wOp' \in {"Write", "Flush"}) => wCalls' = 1
       /\ (wErr = NoError /\ wOp' = "Close") =>
             wCalls' = IF cCloser THEN 1 ELSE 0]_vars

\* C12 witness: a Flush on a Writer poisoned by the tail check returned that
\* error without calling the compressor.
C12_Witness ==
    /\ wOp = "Flush"
    /\ wCalls = 0
    /\ wRet = errUnexpectedTail
    /\ wErr = errUnexpectedTail

\* C13: on a Writer without error, Flush calls the compressor's Flush, and
\* Close the compressor's Close when it has one; the call returns nil exactly
\* when the compressor did not fail and the held-back bytes are 00 00 FF FF;
\* it returns the compressor's error when the compressor failed, and the
\* unexpected-tail error when the compressor did not fail and the held-back
\* bytes differ, as they do when fewer than four bytes were ever emitted.
C13_FlushResult ==
    [][(wErr = NoError /\ wOp' \in {"Flush", "Close"}) =>
          LET called == wOp' = "Flush" \/ cCloser
              failed == called /\ wCErr' # NoError
              tailOk == wCbuf'.held = compressionTail
          IN /\ wCalls' = IF called THEN 1 ELSE 0
             /\ wRet' = NoError <=> (~failed /\ tailOk)
             /\ failed => wRet' = wCErr'
             /\ (~failed /\ ~tailOk) => wRet' = errUnexpectedTail
             /\ (~failed /\ Len(wEmitted') < Len(compressionTail)) =>
                   wRet' = errUnexpectedTail]_vars

\* C13 witness: the compressor's Flush succeeded when one byte had been
\* emitted in all, and Flush returned the unexpected-tail error.
C13_Witness ==
    /\ wOp = "Flush"
    /\ wCalls = 1
    /\ wCErr = NoError
    /\ wEmitted = <<1>>
    /\ wRet = errUnexpectedTail

\* what the bound destination received since it was bound
DestSince ==
    IF wC = "nil" THEN <<>>
    ELSE SubSeq(wOut[wCbuf.dst], wBase + 1, Len(wOut[wCbuf.dst]))

\* C14: at every point, what the destination received since construction or
\* the last Reset, followed by the held-back bytes, is what the compressor
\* emitted since then, in order, and at most four bytes are held back; after
\* a successful Flush the destination has the compressor's output without
\* its final 00 00 FF FF.
C14_DelayBufferConserves ==
    /\ DestSince \o wCbuf.held = wEmitted
    /\ Len(wCbuf.held) <= 4
    /\ (wOp = "Flush" /\ wRet = NoError) =>
          /\ wCbuf.held = <<0, 0, 255, 255>>
          /\ DestSince \o <<0, 0, 255, 255>> = wEmitted

\* C14 witness: after a Reset to a destination that already held a byte, a
\* Flush succeeded with one more byte delivered and the tail held back.
C14_Witness ==
    /\ wOp = "Flush"
    /\ wRet = NoError
    /\ wBase = 1
    /\ DestSince = <<1>>
    /\ wEmitted = <<1, 0, 0, 255, 255>>

EndsWith(s, t) ==
    Len(s) >= Len(t) /\ SubSeq(s, Len(s) - Len(t) + 1, Len(s)) = t

\* C15 as claimed: after a successful Flush or Close the bytes at the
\* destination do not end with 00 00 FF FF.
C15_DestinationNeverEndsWithTail ==
    (wOp \in {"Flush", "Close"} /\ wRet = NoError) =>
        ~EndsWith(DestSince, <<0, 0, 255, 255>>)

\* C15 as amended: after a successful Flush or Close the destination holds the
\* compressor's output without its last four bytes, which are 00 00 FF FF;
\* what is left ends with 00 00 FF FF exactly when the compressor's output
\* ended with 00 00 FF FF twice over.
C15_OneTailRemoved ==
    (wOp \in {"Flush", "Close"} /\ wRet = NoError) =>
        /\ wEmitted = DestSince \o <<0, 0, 255, 255>>
        /\ EndsWith(DestSince, <<0, 0, 255, 255>>)
              <=> EndsWith(wEmitted, <<0, 0, 255, 255, 0, 0, 255, 255>>)

\* C15 witness: two successful Flush calls in a row, each of which made the
\* compressor emit 00 00 FF FF, left 00 00 FF FF at the destination.
C15_Witness ==
    /\ wOp = "Flush"
    /\ wRet = NoError
    /\ wCalls = 1
    /\ wEmitted = <<0, 0, 255, 255, 0, 0, 255, 255>>
    /\ DestSince = <<0, 0, 255, 255>>

\* C17: Reset(dest) clears the error, empties the delay buffer without
\* passing what it held to any destination and binds it to dest; the
\* compressor is Reset in place when it is a WriteResetter and made anew by
\* the factory otherwise; in every other step only the bound destination
\* changes, by receiving in order what was held back and what the
\* compressor emits in that step, less what is held back afterwards.
C17_ResetRebinds ==
    [][/\ wOp' = "Reset" =>
             /\ wErr' = NoError
             /\ wCbuf' = [held |-> <<>>, dst |-> wArg']
             /\ wOut' = wOut
             /\ wEmitted' = <<>>
             /\ wCalls' = 0
             /\ wCReset' = cResetter
             /\ wFactory' = (IF wC = "nil" THEN 1 ELSE 0)
                               + (IF cResetter THEN 0 ELSE 1)
       /\ (wOp' # "Reset" /\ wC' = "set") =>
             LET d == wCbuf'.dst
                 before == IF wC = "nil" THEN <<>> ELSE wCbuf.held
                 new == SubSeq(wEmitted', Len(wEmitted) + 1, Len(wEmitted'))
             IN /\ wC = "set" => wCbuf.dst = d
                /\ \A e \in Destinations \ {d} : wOut'[e] = wOut[e]
                /\ wOut'[d] \o wCbuf'.held = wOut[d] \o before \o new]_vars

\* C17 witness: after a Reset to B in the middle of a message to A, a Flush
\* succeeded; B holds only what was emitted after the Reset and A only what
\* it had received before.
C17_Witness ==
    /\ wOp = "Flush"
    /\ wRet = NoError
    /\ wResets = 1
    /\ wCbuf.dst = "B"
    /\ wOut["A"] = <<1>>
    /\ wOut["B"] = <<1>>
    /\ wEmitted = <<1, 0, 0, 255, 255>>

IsPrefix(s, t) == Len(s) <= Len(t) /\ SubSeq(t, 1, Len(s)) = s

\* what the decompressor is to read from the source it is bound to
FullStream ==
    SubSeq(srcData[rdBound], rdFrom + 1, Len(srcData[rdBound]))
        \o <<0, 0, 255, 255, 1, 0, 0, 255, 255>>

\* C16: what the decompressor has read since it was bound to a source, by
\* the first use or by Reset, is a prefix of that source's bytes followed by
\* 00 00 FF FF 01 00 00 FF FF, and it is told io.EOF only when it has read
\* all of that; the source is never read past the position these bytes
\* account for.
C16_SourceThenSuffixThenEOF ==
    /\ IsPrefix(rdGiven, FullStream)
    /\ rdEOF => rdGiven = FullStream
    /\ rdD = "set" =>
          srcPos[rdBound] = rdFrom + Min(Len(rdGiven), Len(srcData[rdBound]) - rdFrom)
    /\ (rdD = "set" /\ rdSr.r = "nil") =>
          Len(rdGiven) = Len(srcData[rdBound]) - rdFrom + rdSr.pos

\* C16 witness: after a Reset in the middle of the suffix of S, the
\* decompressor read the whole of T, then the nine bytes, then io.EOF.
C16_Witness ==
    /\ rdOp = "Read"
    /\ rdEOF
    /\ rdBound = "T"
    /\ srcPos["S"] = 2
    /\ srcData["S"] = <<11, 12>>
    /\ rdGiven = <<21, 22, 0, 0, 255, 255, 1, 0, 0, 255, 255>>

=============================================================================
